---------------------------- MODULE Spec2Model ----------------------------
(***************************************************************************)
(* Lag-binned autocorrelation of cpv/acf.py: run() turns a start:stop:step *)
(* specification into the lag list, _acf_by_chrom bins the pairs of one    *)
(* chromosome, merge_acfs merges the per-chromosome bins, acf() reduces    *)
(* them to one correlation per bin, and local_acf emits one row per        *)
(* interval.                                                               *)
(*                                                                         *)
(* Values p are integers in units of 0.001 (100 is 0.1); a position is an  *)
(* integer base coordinate.                                                *)
(***************************************************************************)
EXTENDS Integers, Sequences, FiniteSets, TLC

VARIABLES
    pc,            \* where the program is: start, units, reduce, local, done, error
    err,           \* the exception that ended the run, "" when none
    d,             \* run(): the parsed -d triple <<start, stop, step>>, <<>> for a direct call
    lags,          \* the lag list handed to acf() / local_acf()
    partial,       \* acf(partial=...)
    simple,        \* acf(simple=...)
    chromlist,     \* the chromosome list of the last _acf_by_chrom call
    chrom_acf,     \* what that call returned, each bin with the index pairs it appended
    unmerged_acfs, \* acf(): the per-chromosome bin lists, in arrival order
    sources,       \* the bin lists handed to merge_acfs, as they were before the merge
    merged,        \* merge_acfs: the last source, extended in place, as the call left it
    acfs,          \* acf(): the merged bin list merge_acfs returned, popped by the reduction
    xs, ys,        \* acf(): the current sample arrays
    acf_res,       \* acf(): the dict (lmin, lmax) -> result
    stderr,        \* the bins for which "no values found" was printed
    visited,       \* the bins in the order the reduction visited them
    result,        \* what acf() returned
    header,        \* local_acf: the lag labels of the header line
    out            \* local_acf: the rows printed

vars == <<pc, err, d, lags, partial, simple, chromlist, chrom_acf, unmerged_acfs,
          sources, merged, acfs, xs, ys, acf_res, stderr, visited, result, header, out>>

----------------------------------------------------------------------------
(* Bounds and input domains *)

MaxIntervals == 3
MaxUnits == 2
MaxNeighborhood == 5

\* -d start:stop:step as run() parses it
DStarts == {-10, 0}
DStops == {-30, 5, 20, 35}
DSteps == {-10, 0, 10, 15}
DSpecs == {<<a, b, c>> : a \in DStarts, b \in DStops, c \in DSteps}

\* lag lists handed to acf() directly (the bins [0,15), [15,35))
DirectLags == {<<0, 15, 35>>}

\* intervals of one chromosome
StartCoords == {0, 20, 40}
Lengths == {10, 30}
PValues == {10, 100}
Intervals == {[start |-> s, end |-> s + l, p |-> v] :
                 s \in StartCoords, l \in Lengths, v \in PValues}

IsSorted(c) == \A k \in 1..Len(c) - 1 : c[k].start <= c[k + 1].start

\* the chromosome lists groupby yields: non-empty, sorted by start
ChromLists ==
    {c \in UNION {[1..n -> Intervals] : n \in 1..MaxIntervals} : IsSorted(c)}

\* the three intervals (0,10,0.1), (20,30,0.2), (40,50,0.3) and their sub-lists
Scenario == << [start |-> 0, end |-> 10, p |-> 100],
               [start |-> 20, end |-> 30, p |-> 200],
               [start |-> 40, end |-> 50, p |-> 300] >>

RECURSIVE SubSeqOf(_, _)
SubSeqOf(s, keep) ==
    IF s = <<>> THEN <<>>
    ELSE (IF Len(s) \in keep THEN SubSeqOf(SubSeq(s, 1, Len(s) - 1), keep) \o <<s[Len(s)]>>
          ELSE SubSeqOf(SubSeq(s, 1, Len(s) - 1), keep))

ScenarioLists ==
    {SubSeqOf(Scenario, keep) : keep \in (SUBSET (1..Len(Scenario))) \ {{}}}

\* lag lists a caller of _acf_by_chrom and merge_acfs may mix
MergeLags == {<<0, 15, 35>>, <<-5, 0, 15, 35>>, <<5, 15, 35>>, <<0, 20, 40>>}

\* local mode: the bed file is one chromosome, a sub-list of these intervals
LocalPool == << [start |-> 0, end |-> 5, p |-> 100],
                [start |-> 10, end |-> 15, p |-> 10],
                [start |-> 20, end |-> 25, p |-> 1],
                [start |-> 30, end |-> 35, p |-> 10],
                [start |-> 40, end |-> 45, p |-> 100],
                [start |-> 50, end |-> 55, p |-> 1] >>

LocalBeds ==
    {SubSeqOf(LocalPool, keep) :
        keep \in {k \in SUBSET (1..Len(LocalPool)) : Cardinality(k) <= MaxNeighborhood}}

----------------------------------------------------------------------------
(* Helpers of the language *)

\* Python 2 range(start, stop, step), step /= 0
RangeLen(start, stop, step) ==
    IF step > 0
    THEN (IF stop > start THEN (stop - start + step - 1) \div step ELSE 0)
    ELSE (IF start > stop THEN (start - stop - step - 1) \div (0 - step) ELSE 0)

range(start, stop, step) ==
    [k \in 1..RangeLen(start, stop, step) |-> start + (k - 1) * step]

Reverse(s) == [k \in 1..Len(s) |-> s[Len(s) + 1 - k]]

Min2(a, b) == IF a <= b THEN a ELSE b

\* _common.pairwise: (s0, s1), (s1, s2), ...
pairwise(s) == [k \in 1..Len(s) - 1 |-> <<s[k], s[k + 1]>>]

----------------------------------------------------------------------------
(* create_acf_list and _acf_by_chrom *)

EmptyBin(lag_min, lag_max) ==
    [lag_min |-> lag_min, lag_max |-> lag_max, x |-> <<>>, y |-> <<>>, pairs |-> <<>>]

create_acf_list_unreversed(l) ==
    [k \in 1..Len(pairwise(l)) |-> EmptyBin(pairwise(l)[k][1], pairwise(l)[k][2])]

create_acf_list(l) ==
    Reverse([k \in 1..Len(pairwise(l)) |-> EmptyBin(pairwise(l)[k][1], pairwise(l)[k][2])])

RECURSIVE SeqMax(_)
SeqMax(s) ==
    IF Len(s) = 1 THEN s[1]
    ELSE (LET m == SeqMax(Tail(s)) IN IF s[1] >= m THEN s[1] ELSE m)

max_lag_of_first(a) == a[Len(a)].lag_max

\* max(a[1] for a in acfs)
max_lag_of(a) == SeqMax([k \in 1..Len(a) |-> a[k].lag_max])

AppendSwapped(bin, xbed, ybed, ix, iy) ==
    [bin EXCEPT !.x = Append(@, ybed.p), !.y = Append(@, xbed.p),
                !.pairs = Append(@, <<ix, iy>>)]

\* xys["x"].append(xbed['p']); xys["y"].append(ybed['p'])
AppendPair(bin, xbed, ybed, ix, iy) ==
    [bin EXCEPT !.x = Append(@, xbed.p), !.y = Append(@, ybed.p),
                !.pairs = Append(@, <<ix, iy>>)]

\* for lag_min, lag_max, xys in acfs: ... elif dist > lag_max: break
RECURSIVE BinScan(_, _, _, _, _, _, _)
BinScan(a, k, dist, xbed, ybed, ix, iy) ==
    IF k > Len(a) THEN a
    ELSE IF a[k].lag_min <= dist /\ dist < a[k].lag_max
         THEN BinScan([a EXCEPT ![k] = AppendPair(a[k], xbed, ybed, ix, iy)],
                      k + 1, dist, xbed, ybed, ix, iy)
         ELSE IF dist > a[k].lag_max THEN a
              ELSE BinScan(a, k + 1, dist, xbed, ybed, ix, iy)

\* for iy in xrange(ix + 1, len(chromlist)): ... if dist > max_lag: break
RECURSIVE YScan(_, _, _, _, _)
YScan(a, c, ix, iy, max_lag) ==
    IF iy > Len(c) THEN a
    ELSE LET dist == c[iy].start - c[ix].end
         IN  IF dist > max_lag THEN a
             ELSE YScan(BinScan(a, 1, dist, c[ix], c[iy], ix, iy), c, ix, iy + 1, max_lag)

\* for ix, xbed in enumerate(chromlist)
RECURSIVE XScan(_, _, _, _)
XScan(a, c, ix, max_lag) ==
    IF ix > Len(c) THEN a
    ELSE XScan(YScan(a, c, ix, ix + 1, max_lag), c, ix + 1, max_lag)

\* _acf_by_chrom((chromlist, lags)); max() of no bins raises ValueError
acf_by_chrom_raises(l) == Len(create_acf_list(l)) = 0

_acf_by_chrom(c, l) ==
    LET a == create_acf_list(l)
    IN  XScan(a, c, 1, max_lag_of(a))

\* a bin as the arrays hold it: the values only
Arrays(bin) == [lag_min |-> bin.lag_min, lag_max |-> bin.lag_max, x |-> bin.x, y |-> bin.y]

ArraysOf(a) == [k \in 1..Len(a) |-> Arrays(a[k])]

----------------------------------------------------------------------------
(* merge_acfs *)

ExtendOverwrite(g, u) == [g EXCEPT !.x = u.x, !.y = u.y]

\* gxys["x"].extend(uxys["x"]); gxys["y"].extend(uxys["y"])
Extend(g, u) == [g EXCEPT !.x = @ \o u.x, !.y = @ \o u.y]

SameLagsUnchecked(g, u) == TRUE

\* assert glag_min == ulag_min and glag_max == ulag_max
SameLags(g, u) == g.lag_min = u.lag_min /\ g.lag_max = u.lag_max

\* for (...), (...) in izip(merged, um): izip stops at the shorter list
RECURSIVE MergeBins(_, _, _)
MergeBins(g, um, k) ==
    IF k > Min2(Len(g), Len(um)) THEN [raised |-> FALSE, merged |-> g]
    ELSE IF SameLags(g[k], um[k])
         THEN MergeBins([g EXCEPT ![k] = Extend(g[k], um[k])], um, k + 1)
         ELSE [raised |-> TRUE, merged |-> g]

\* for um in unmerged
RECURSIVE MergeSources(_, _, _)
MergeSources(g, rest, i) ==
    IF i > Len(rest) THEN [raised |-> FALSE, merged |-> g]
    ELSE LET r == MergeBins(g, rest[i], 1)
         IN  IF r.raised THEN r ELSE MergeSources(r.merged, rest, i + 1)

\* merged = unmerged.pop(); the list must not be empty
merge_acfs(unmerged) ==
    MergeSources(unmerged[Len(unmerged)], SubSeq(unmerged, 1, Len(unmerged) - 1), 1)

----------------------------------------------------------------------------
(* The correlation and the reduction of acf() *)

RECURSIVE Sum(_)
Sum(s) == IF s = <<>> THEN 0 ELSE s[1] + Sum(Tail(s))

\* a coefficient: a number cov / sqrt(vx * vy), NaN, or the text "NA"
Coef(kind, cov, vx, vy) == [kind |-> kind, cov |-> cov, vx |-> vx, vy |-> vy]

NaN == Coef("nan", 0, 0, 0)

NA == Coef("NA", 0, 0, 0)

\* np.corrcoef(xs, ys)[0, 1] = cov / sqrt(vx * vy), kept as the exact triple
\* (each scaled by n * n); NaN when a variance is zero, as for one sample
corrcoef(a, b) ==
    LET n == Len(a)
        cov == n * Sum([k \in 1..n |-> a[k] * b[k]]) - Sum(a) * Sum(b)
        vx == n * Sum([k \in 1..n |-> a[k] * a[k]]) - Sum(a) * Sum(a)
        vy == n * Sum([k \in 1..n |-> b[k] * b[k]]) - Sum(b) * Sum(b)
    IN  IF vx = 0 \/ vy = 0 THEN NaN ELSE Coef("num", cov, vx, vy)

NextSamplesBinOnly(prev, arr, part) == arr

\* partial: the bin's own array; full: np.hstack((xs, xys["x"]))
NextSamples(prev, arr, part) == IF part THEN arr ELSE prev \o arr

SkipsFewSamples(a) == Len(a) <= 1

\* if len(xs) == 0: ... continue
Skips(a) == Len(a) = 0

ResultOrNA(a, b, simp) ==
    IF simp THEN corrcoef(a, b)
    ELSE IF Len(a) > 3 THEN <<corrcoef(a, b), Len(a)>> ELSE <<NA, Len(a)>>

\* acf_res[(lmin, lmax)] = corrcoef, or (corrcoef, len(xs))
ResultOf(a, b, simp) ==
    IF simp THEN corrcoef(a, b) ELSE <<corrcoef(a, b), Len(a)>>

Store(res, key, v) ==
    [k \in (DOMAIN res) \cup {key} |-> IF k = key THEN v ELSE res[k]]

KeyLess(j, k) == j[1] < k[1] \/ (j[1] = k[1] /\ j[2] < k[2])

\* sorted(acf_res.items())
RECURSIVE SortedKeys(_)
SortedKeys(S) ==
    IF S = {} THEN <<>>
    ELSE LET m == CHOOSE k \in S : \A j \in S \ {k} : KeyLess(k, j)
         IN  <<m>> \o SortedKeys(S \ {m})

sorted_items(res) ==
    LET ks == SortedKeys(DOMAIN res)
    IN  [i \in 1..Len(ks) |-> <<ks[i], res[ks[i]]>>]

NoResults == [k \in {} |-> 0]

----------------------------------------------------------------------------
(* local_acf *)

\* -np.log10 of a value in units of 0.001
NegLog10(v) == CASE v = 1 -> 3 [] v = 10 -> 2 [] v = 100 -> 1

NegLog10All(a) == [k \in 1..Len(a) |-> NegLog10(a[k])]

\* slk.walk: j is a neighbor of the center i when it is another interval within
\* max_lag of it, on either side
Near(c, i, j, max_lag) ==
    /\ j # i
    /\ (IF j > i THEN c[j].start - c[i].end ELSE c[i].start - c[j].end) <= max_lag

walk(c, max_lag) ==
    [i \in 1..Len(c) |->
        [xbed |-> c[i],
         neighbors |-> SubSeqOf(c, {j \in 1..Len(c) : Near(c, i, j, max_lag)})]]

local_bins_unreversed(neighbors, l) == _acf_by_chrom(neighbors, l)

\* reversed(_acf_by_chrom((neighbors, lags)))
local_bins(neighbors, l) == Reverse(_acf_by_chrom(neighbors, l))

\* one "corr, N" column pair of a row, with the bin it was computed from
local_col(bin) ==
    [lag_min |-> bin.lag_min, lag_max |-> bin.lag_max,
     corr |-> IF Len(bin.x) > 3
              THEN corrcoef(NegLog10All(bin.x), NegLog10All(bin.y))
              ELSE NA,
     N |-> Len(bin.x)]

\* the line of one center: start, end, p and a column pair per bin
local_line(xbed, neighbors, l) ==
    [start |-> xbed.start, end |-> xbed.end, p |-> xbed.p,
     cols |-> [k \in 1..Len(local_bins(neighbors, l)) |->
                  local_col(local_bins(neighbors, l)[k])]]

----------------------------------------------------------------------------
(* Actions *)

Init ==
    /\ pc = "start"
    /\ err = ""
    /\ d = <<>>
    /\ lags = <<>>
    /\ partial = TRUE
    /\ simple = FALSE
    /\ chromlist = <<>>
    /\ chrom_acf = <<>>
    /\ unmerged_acfs = <<>>
    /\ sources = <<>>
    /\ merged = <<>>
    /\ acfs = <<>>
    /\ xs = <<>>
    /\ ys = <<>>
    /\ acf_res = NoResults
    /\ stderr = <<>>
    /\ visited = <<>>
    /\ result = <<>>
    /\ header = <<>>
    /\ out = <<>>

RunLagsExclusive(dd) == range(dd[1], dd[2], dd[3])

\* d[1] += 1; lags = range(*d)
RunLags(dd) == range(dd[1], dd[2] + 1, dd[3])

Raise(e) ==
    /\ pc' = "error"
    /\ err' = e

\* run(args) without --local, up to the call of acf(); range() rejects a zero step
Run(dd, full) ==
    /\ pc = "start"
    /\ d' = dd
    /\ IF dd[3] = 0
       THEN /\ Raise("ValueError")
            /\ UNCHANGED <<lags, partial, simple>>
       ELSE /\ lags' = RunLags(dd)
            /\ partial' = ~full
            /\ simple' = FALSE
            /\ pc' = "units"
            /\ err' = err
    /\ UNCHANGED <<chromlist, chrom_acf, unmerged_acfs, sources, merged, acfs, xs, ys,
                   acf_res, stderr, visited, result, header, out>>

\* acf(fnames, lags, col_num0, partial, simple) called with a lag list of the caller's
AcfDirect(l, part, simp) ==
    /\ pc = "start"
    /\ lags' = l
    /\ partial' = part
    /\ simple' = simp
    /\ pc' = "units"
    /\ UNCHANGED <<err, d, chromlist, chrom_acf, unmerged_acfs, sources, merged, acfs, xs, ys,
                   acf_res, stderr, visited, result, header, out>>

\* one chromosome of acf()'s loop: chrom_acf = _acf_by_chrom((chromlist, l));
\* unmerged_acfs.append(chrom_acf)
AcfByChrom(c, l) ==
    /\ pc = "units"
    /\ Len(unmerged_acfs) < MaxUnits
    /\ chromlist' = c
    /\ IF acf_by_chrom_raises(l)
       THEN /\ Raise("ValueError")
            /\ UNCHANGED <<chrom_acf, unmerged_acfs>>
       ELSE /\ chrom_acf' = _acf_by_chrom(c, l)
            /\ unmerged_acfs' = Append(unmerged_acfs, ArraysOf(_acf_by_chrom(c, l)))
            /\ UNCHANGED <<pc, err>>
    /\ UNCHANGED <<d, lags, partial, simple, sources, merged, acfs, xs, ys, acf_res, stderr,
                   visited, result, header, out>>

\* acfs = merge_acfs(unmerged_acfs); pop() of no source raises IndexError
MergeAcfs ==
    /\ pc = "units"
    /\ sources' = unmerged_acfs
    /\ IF Len(unmerged_acfs) = 0
       THEN /\ Raise("IndexError")
            /\ UNCHANGED <<unmerged_acfs, merged, acfs>>
       ELSE /\ unmerged_acfs' = SubSeq(unmerged_acfs, 1, Len(unmerged_acfs) - 1)
            /\ merged' = merge_acfs(unmerged_acfs).merged
            /\ IF merge_acfs(unmerged_acfs).raised
               THEN Raise("AssertionError") /\ acfs' = acfs
               ELSE pc' = "reduce" /\ err' = err /\ acfs' = merge_acfs(unmerged_acfs).merged
    /\ UNCHANGED <<d, lags, partial, simple, chromlist, chrom_acf, xs, ys, acf_res,
                   stderr, visited, result, header, out>>

\* one turn of "while len(acfs)": lmin, lmax, xys = acfs.pop() ...
ReduceStep ==
    /\ pc = "reduce"
    /\ Len(acfs) > 0
    /\ LET bin == acfs[Len(acfs)]
           key == <<bin.lag_min, bin.lag_max>>
           nx == NextSamples(xs, bin.x, partial)
           ny == NextSamples(ys, bin.y, partial)
       IN  /\ acfs' = SubSeq(acfs, 1, Len(acfs) - 1)
           /\ xs' = nx
           /\ ys' = ny
           /\ visited' = Append(visited, key)
           /\ IF Skips(nx)
              THEN /\ stderr' = Append(stderr, key)
                   /\ acf_res' = acf_res
              ELSE /\ acf_res' = Store(acf_res, key, ResultOf(nx, ny, simple))
                   /\ stderr' = stderr
    /\ UNCHANGED <<pc, err, d, lags, partial, simple, chromlist, chrom_acf,
                   unmerged_acfs, sources, merged, result, header, out>>

\* return sorted(acf_res.items())
Return ==
    /\ pc = "reduce"
    /\ Len(acfs) = 0
    /\ result' = sorted_items(acf_res)
    /\ pc' = "done"
    /\ UNCHANGED <<err, d, lags, partial, simple, chromlist, chrom_acf, unmerged_acfs,
                   sources, merged, acfs, xs, ys, acf_res, stderr, visited, header, out>>

\* run(args) with --local: local_acf up to the header line; max() of an empty
\* lag list raises ValueError
RunLocal(dd, bed) ==
    /\ pc = "start"
    /\ d' = dd
    /\ IF dd[3] = 0
       THEN /\ Raise("ValueError")
            /\ UNCHANGED <<lags, header, chromlist>>
       ELSE /\ lags' = RunLags(dd)
            /\ IF Len(RunLags(dd)) = 0
               THEN /\ Raise("ValueError")
                    /\ UNCHANGED <<header, chromlist>>
               ELSE /\ header' = pairwise(RunLags(dd))
                    /\ chromlist' = bed
                    /\ pc' = "local"
                    /\ err' = err
    /\ UNCHANGED <<partial, simple, chrom_acf, unmerged_acfs, sources, merged, acfs,
                   xs, ys, acf_res, stderr, visited, result, out>>

\* one turn of "for xbed, neighbors in walk(chromgroup, max_lag)"
LocalRow ==
    /\ pc = "local"
    /\ Len(out) < Len(chromlist)
    /\ LET w == walk(chromlist, SeqMax(lags))[Len(out) + 1]
       IN  IF acf_by_chrom_raises(lags)
           THEN Raise("ValueError") /\ out' = out
           ELSE /\ out' = Append(out, local_line(w.xbed, w.neighbors, lags))
                /\ UNCHANGED <<pc, err>>
    /\ UNCHANGED <<d, lags, partial, simple, chromlist, chrom_acf, unmerged_acfs,
                   sources, merged, acfs, xs, ys, acf_res, stderr, visited, result,
                   header>>

\* the chromosome is exhausted
LocalEnd ==
    /\ pc = "local"
    /\ Len(out) = Len(chromlist)
    /\ pc' = "done"
    /\ UNCHANGED <<err, d, lags, partial, simple, chromlist, chrom_acf, unmerged_acfs,
                   sources, merged, acfs, xs, ys, acf_res, stderr, visited, result,
                   header, out>>

----------------------------------------------------------------------------
(* Specifications *)

RunAcf == \E dd \in DSpecs, full \in BOOLEAN : Run(dd, full)

CallAcf == \E l \in DirectLags, part \in BOOLEAN, simp \in BOOLEAN : AcfDirect(l, part, simp)

\* a chromosome of the three-interval file
ScenarioChrom == \E c \in ScenarioLists : AcfByChrom(c, lags)

Next == RunAcf \/ CallAcf \/ ScenarioChrom \/ MergeAcfs \/ ReduceStep \/ Return

\* acf() from the command line or a direct call, to its return
Spec == Init /\ [][Next]_vars

\* one call of _acf_by_chrom over any sorted chromosome
BinChrom == \E c \in ChromLists : unmerged_acfs = <<>> /\ AcfByChrom(c, lags)

RunPartial == \E dd \in DSpecs : Run(dd, FALSE)

CallPartial == \E l \in DirectLags : AcfDirect(l, TRUE, FALSE)

NextBin == RunPartial \/ CallPartial \/ BinChrom

SpecBin == Init /\ [][NextBin]_vars

\* units binned by a caller against lag lists of its choice, then merge_acfs
OwnLagsChrom == \E c \in ScenarioLists, l \in MergeLags : AcfByChrom(c, l)

NextMerge == CallPartial \/ OwnLagsChrom \/ MergeAcfs

SpecMerge == Init /\ [][NextMerge]_vars

\* run() with --local over one chromosome
RunLocalAcf == \E dd \in DSpecs, bed \in LocalBeds : RunLocal(dd, bed)

NextLocal == RunLocalAcf \/ LocalRow \/ LocalEnd

SpecLocal == Init /\ [][NextLocal]_vars

----------------------------------------------------------------------------
(* Properties of _acf_by_chrom and of the lag list, under SpecBin *)

\* _acf_by_chrom has returned for chromlist
Binned == pc = "units" /\ chrom_acf # <<>>

Dist(c, i, j) == c[j].start - c[i].end

IndexPairs(c) == {ij \in (1..Len(c)) \X (1..Len(c)) : ij[1] < ij[2]}

\* how often the pair of indexes ij was appended to bin
Times(bin, ij) == Cardinality({m \in 1..Len(bin.pairs) : bin.pairs[m] = ij})

InBin(bin, dist) == bin.lag_min <= dist /\ dist < bin.lag_max

\* C1: with a lag list from range(start, stop+1, step), step > 0, and a chromosome
\* sorted by start, a pair is appended to a bin only if its dist is in that bin's
\* [lag_min, lag_max), and then once, with the values (x.p, y.p); a pair whose
\* dist is in [first lag, last lag) is in exactly one bin, any other pair in none.
C1_ExactlyOneBin ==
    (Binned /\ d # <<>> /\ d[3] > 0) =>
        \A ij \in IndexPairs(chromlist) :
            LET dist == Dist(chromlist, ij[1], ij[2])
                holds == {k \in 1..Len(chrom_acf) : Times(chrom_acf[k], ij) > 0}
            IN  /\ \A k \in holds : /\ InBin(chrom_acf[k], dist)
                                    /\ Times(chrom_acf[k], ij) = 1
                /\ Cardinality(holds) <= 1
                /\ (lags[1] <= dist /\ dist < lags[Len(lags)]) => Cardinality(holds) = 1
                /\ (\A k \in 1..Len(chrom_acf) : ~InBin(chrom_acf[k], dist)) => holds = {}

\* a chromosome with a pair inside the lag range, binned, and a pair outside, not binned
C1_Witness ==
    /\ Binned /\ d # <<>> /\ d[3] > 0
    /\ \E ij \in IndexPairs(chromlist) :
          /\ lags[1] <= Dist(chromlist, ij[1], ij[2])
          /\ Dist(chromlist, ij[1], ij[2]) < lags[Len(lags)]
          /\ \E k \in 1..Len(chrom_acf) : Times(chrom_acf[k], ij) = 1
    /\ \E ij \in IndexPairs(chromlist) :
          /\ Dist(chromlist, ij[1], ij[2]) >= lags[Len(lags)]
          /\ \A k \in 1..Len(chrom_acf) : Times(chrom_acf[k], ij) = 0

\* run() has built the lag list of a -d specification
LagsBuilt == pc = "units" /\ d # <<>>

\* C6 as stated, for the specifications with step > 0 that give a bin: the bins
\* are the half-open ranges [lo, lo+step), ..., disjoint, covering start up to
\* stop, and the last lag boundary is stop.
C6_LastBoundaryIsStop ==
    (LagsBuilt /\ d[3] > 0 /\ Len(lags) >= 2) =>
        LET b == create_acf_list(lags)
        IN  /\ b[Len(b)].lag_min = d[1]
            /\ \A k \in 1..Len(b) : b[k].lag_max = b[k].lag_min + d[3]
            /\ \A k \in 1..Len(b) - 1 : b[k].lag_min = b[k + 1].lag_max
            /\ b[1].lag_max = d[2]

\* C6 amended: for step > 0 the bins are the half-open ranges [lo, lo+step) from
\* start on, each starting where the one below ends, up to the last boundary, the
\* largest start + k*step <= stop; that boundary is stop exactly when step divides
\* stop - start, and there is no bin at all when start + step > stop.
C6_BinsCoverUpToLastMultiple ==
    (LagsBuilt /\ d[3] > 0) =>
        LET b == create_acf_list(lags)
        IN  /\ (Len(b) = 0) <=> (d[1] + d[3] > d[2])
            /\ \A k \in 1..Len(b) : b[k].lag_max = b[k].lag_min + d[3]
            /\ \A k \in 1..Len(b) - 1 : b[k].lag_min = b[k + 1].lag_max
            /\ Len(b) >= 1 =>
                  /\ b[Len(b)].lag_min = d[1]
                  /\ b[1].lag_max <= d[2]
                  /\ b[1].lag_max > d[2] - d[3]
                  /\ (b[1].lag_max = d[2]) <=> ((d[2] - d[1]) % d[3] = 0)

\* a specification whose step does not divide stop - start: two bins or more,
\* the last boundary below stop
C6_Witness ==
    /\ LagsBuilt /\ d[3] > 0
    /\ Len(create_acf_list(lags)) >= 2
    /\ create_acf_list(lags)[1].lag_max < d[2]

\* C9 as stated: for every sorted chromosome and every lag list, every appended
\* pair has dist >= 0, x is the earlier interval's value and y the later one's,
\* and xs and ys have equal length.
C9_NoNegativeDist ==
    Binned =>
        \A k \in 1..Len(chrom_acf) :
            LET bin == chrom_acf[k]
            IN  /\ Len(bin.x) = Len(bin.y)
                /\ \A m \in 1..Len(bin.pairs) :
                      /\ bin.pairs[m][1] < bin.pairs[m][2]
                      /\ bin.x[m] = chromlist[bin.pairs[m][1]].p
                      /\ bin.y[m] = chromlist[bin.pairs[m][2]].p
                      /\ Dist(chromlist, bin.pairs[m][1], bin.pairs[m][2]) >= 0

NoNegativeLag == \A k \in 1..Len(lags) : lags[k] >= 0

\* C9 amended: every appended pair has x from the earlier index and y from the
\* later one at the same array index, xs and ys have equal length, and dist is
\* at least the bin's lag_min: dist >= 0 when no lag boundary is negative.
C9_DistAtLeastLagMin ==
    Binned =>
        \A k \in 1..Len(chrom_acf) :
            LET bin == chrom_acf[k]
            IN  /\ Len(bin.x) = Len(bin.y)
                /\ Len(bin.x) = Len(bin.pairs)
                /\ \A m \in 1..Len(bin.pairs) :
                      /\ bin.pairs[m][1] < bin.pairs[m][2]
                      /\ bin.x[m] = chromlist[bin.pairs[m][1]].p
                      /\ bin.y[m] = chromlist[bin.pairs[m][2]].p
                      /\ Dist(chromlist, bin.pairs[m][1], bin.pairs[m][2]) >= bin.lag_min
                      /\ NoNegativeLag =>
                            Dist(chromlist, bin.pairs[m][1], bin.pairs[m][2]) >= 0

\* no negative lag, two overlapping intervals left out, and a pair of different
\* values binned
C9_Witness ==
    /\ Binned /\ NoNegativeLag
    /\ \E ij \in IndexPairs(chromlist) :
          /\ Dist(chromlist, ij[1], ij[2]) < 0
          /\ \A k \in 1..Len(chrom_acf) : Times(chrom_acf[k], ij) = 0
    /\ \E k \in 1..Len(chrom_acf) : \E m \in 1..Len(chrom_acf[k].pairs) :
          chrom_acf[k].x[m] # chrom_acf[k].y[m]

\* the pairs i < j of c whose dist is in bin, every pair tested, in scan order
RECURSIVE RefPairs(_, _, _, _)
RefPairs(c, bin, i, j) ==
    IF i > Len(c) THEN <<>>
    ELSE IF j > Len(c) THEN RefPairs(c, bin, i + 1, i + 2)
         ELSE (IF InBin(bin, Dist(c, i, j)) THEN << <<i, j>> >> ELSE <<>>)
              \o RefPairs(c, bin, i, j + 1)

\* C10: for a chromosome sorted by start the two early exits skip no pair that
\* belongs to a bin: each bin holds exactly the pairs, and their values, that a
\* scan of every pair i < j against every bin would put there.
C10_EarlyExitsSkipNothing ==
    Binned =>
        \A k \in 1..Len(chrom_acf) :
            LET ref == RefPairs(chromlist, chrom_acf[k], 1, 2)
            IN  /\ chrom_acf[k].pairs = ref
                /\ chrom_acf[k].x = [m \in 1..Len(ref) |-> chromlist[ref[m][1]].p]
                /\ chrom_acf[k].y = [m \in 1..Len(ref) |-> chromlist[ref[m][2]].p]

\* both exits taken: a pair beyond max_lag, a pair above the upper edge of a bin
\* that is not the largest, and a pair binned
C10_Witness ==
    /\ Binned
    /\ Len(chrom_acf) >= 2
    /\ \E ij \in IndexPairs(chromlist) :
          Dist(chromlist, ij[1], ij[2]) > max_lag_of(chrom_acf)
    /\ \E ij \in IndexPairs(chromlist) :
          /\ InBin(chrom_acf[1], Dist(chromlist, ij[1], ij[2]))
          /\ Times(chrom_acf[1], ij) = 1
    /\ \E ij \in IndexPairs(chromlist) :
          /\ Dist(chromlist, ij[1], ij[2]) <= max_lag_of(chrom_acf)
          /\ Dist(chromlist, ij[1], ij[2]) > chrom_acf[2].lag_max
          /\ \E k \in 1..Len(chrom_acf) : Times(chrom_acf[k], ij) = 1

----------------------------------------------------------------------------
(* Properties of the merge and the reduction of acf(), under Spec *)

Increasing(l) == \A k \in 1..Len(l) - 1 : l[k] < l[k + 1]

RECURSIVE Total(_)
Total(s) == IF Len(s) = 0 THEN 0 ELSE s[1] + Total(Tail(s))

RECURSIVE Concat(_)
Concat(ss) == IF Len(ss) = 0 THEN <<>> ELSE ss[1] \o Concat(Tail(ss))

\* the bins of the merged set, position 1 the largest lag, as the sources give them
NBins == Len(sources[1])

KeyAt(k) == <<sources[1][k].lag_min, sources[1][k].lag_max>>

\* the pairs of bin k over all sources
MergedX(k) == Concat([s \in 1..Len(sources) |-> sources[s][k].x])

MergedY(k) == Concat([s \in 1..Len(sources) |-> sources[s][k].y])

MergedSize(k) == Total([s \in 1..Len(sources) |-> Len(sources[s][k].x)])

\* the pairs of bin k and of every bin after it in the list (for an increasing lag
\* list, every bin with a smaller lag)
UpToX(k) == Concat([j \in 1..NBins + 1 - k |-> MergedX(NBins + 1 - j)])

UpToY(k) == Concat([j \in 1..NBins + 1 - k |-> MergedY(NBins + 1 - j)])

UsedX(k) == IF partial THEN MergedX(k) ELSE UpToX(k)

UsedY(k) == IF partial THEN MergedY(k) ELSE UpToY(k)

Reported(k) == \E i \in 1..Len(result) : result[i][1] = KeyAt(k)

Warned(k) == \E i \in 1..Len(stderr) : stderr[i] = KeyAt(k)

\* C2 as stated, for an increasing lag list: acf() returns one result per bin of
\* the merged set, and a bin (partial) or accumulator (full) with no pair is
\* reported as ("NA", 0), with a warning, the remaining bins being processed and
\* reported.
C2_EmptyBinReportedNA ==
    (pc = "done" /\ Increasing(lags)) =>
        /\ Len(result) = NBins
        /\ Len(visited) = NBins
        /\ \A k \in 1..NBins :
              /\ Reported(k)
              /\ Len(UsedX(k)) = 0 =>
                    /\ Warned(k)
                    /\ ~simple => \E i \in 1..Len(result) : result[i] = <<KeyAt(k), <<NA, 0>>>>

\* C2 amended: acf() returns one result per bin whose sample set (the bin in
\* partial mode, the accumulator in full mode) is not empty; a bin with no sample
\* is left out of the results, one warning is printed for it, and every remaining
\* bin is still processed.
C2_EmptyBinSkipped ==
    pc = "done" =>
        /\ Len(visited) = NBins
        /\ \A k \in 1..NBins : \E i \in 1..NBins : visited[i] = KeyAt(k)
        /\ Len(result) + Len(stderr) = NBins
        /\ \A k \in 1..NBins :
              /\ Reported(k) <=> Len(UsedX(k)) > 0
              /\ Warned(k) <=> Len(UsedX(k)) = 0
        /\ \A i \in 1..Len(result) - 1 : KeyLess(result[i][1], result[i + 1][1])

\* a bin without pairs warned about and left out, a bin visited after it reported
C2_Witness ==
    /\ pc = "done"
    /\ partial
    /\ \E i \in 1..Len(visited) - 1 :
          /\ \E w \in 1..Len(stderr) : stderr[w] = visited[i]
          /\ \E r \in 1..Len(result) : result[r][1] = visited[i + 1]

\* acf() called for the file of the three intervals with the bins [0,15), [15,35)
ScenarioRun ==
    /\ lags = <<0, 15, 35>>
    /\ partial
    /\ Len(sources) = 1
    /\ chromlist = Scenario

\* C3 as stated, NaN taken for "NA": acf() reports a bin with 1 <= n <= 3
\* samples with no number for its coefficient, and a number only when n > 3; for
\* the three intervals, the bins hold 2 and 1 pairs and are reported without a
\* number, with n = 2 and n = 1.
C3_FewSamplesReportedNA ==
    (pc = "done" /\ ~simple) =>
        /\ \A i \in 1..Len(result) :
              /\ result[i][2][2] <= 3 => result[i][2][1].kind \in {"NA", "nan"}
              /\ result[i][2][1].kind = "num" => result[i][2][2] > 3
        /\ ScenarioRun =>
              /\ Len(result) = 2
              /\ result[1][1] = <<0, 15>> /\ result[1][2][2] = 2
              /\ result[1][2][1].kind \in {"NA", "nan"}
              /\ result[2][1] = <<15, 35>> /\ result[2][2][2] = 1
              /\ result[2][2][1].kind \in {"NA", "nan"}

\* C3 amended: acf() reports every bin with n >= 1 samples with the coefficient
\* np.corrcoef gives for them (NaN where it is undefined) and the true count n,
\* whatever n is, never as "NA"; for the three intervals the bins [0,15) and
\* [15,35) hold 2 and 1 pairs and are reported as (1.0, 2) and (NaN, 1).
C3_EveryCountCorrelated ==
    (pc = "done" /\ ~simple) =>
        /\ \A i \in 1..Len(result) : \E k \in 1..NBins :
              /\ result[i][1] = KeyAt(k)
              /\ result[i][2][2] = Len(UsedX(k))
              /\ result[i][2][2] >= 1
              /\ result[i][2][1] = corrcoef(UsedX(k), UsedY(k))
              /\ result[i][2][1] # NA
        /\ ScenarioRun =>
              /\ Len(sources[1][2].x) = 2
              /\ Len(sources[1][1].x) = 1
              /\ result = << <<<<0, 15>>, <<Coef("num", 10000, 10000, 10000), 2>>>>,
                             <<<<15, 35>>, <<NaN, 1>>>> >>

\* the file of the three intervals reduced to its two results
C3_Witness == pc = "done" /\ ~simple /\ ScenarioRun

\* merge_acfs has returned and the reduction has not started
JustMerged == pc = "reduce" /\ visited = <<>>

PairValues == {Scenario[i].p : i \in 1..Len(Scenario)} \X {Scenario[i].p : i \in 1..Len(Scenario)}

\* how often the pair of values ab is in bin
CountPair(bin, ab) ==
    Cardinality({m \in 1..Len(bin.x) : bin.x[m] = ab[1] /\ bin.y[m] = ab[2]})

\* C4: for sources built against the same lag list, merge_acfs over any
\* permutation of them returns, for every bin, the same multiset of (x, y) pairs
\* and the same n, the sum of the bin's sizes over the sources.
C4_MergeOrderIndependent ==
    JustMerged =>
        \A perm \in Permutations(1..Len(sources)) :
            LET r == merge_acfs([i \in 1..Len(sources) |-> sources[perm[i]]])
            IN  /\ ~r.raised
                /\ Len(r.merged) = NBins
                /\ \A k \in 1..NBins :
                      /\ Len(r.merged[k].x) = MergedSize(k)
                      /\ Len(r.merged[k].y) = MergedSize(k)
                      /\ Len(acfs[k].x) = MergedSize(k)
                      /\ \A ab \in PairValues :
                            /\ CountPair(r.merged[k], ab) =
                                  Total([s \in 1..Len(sources) |-> CountPair(sources[s][k], ab)])
                            /\ CountPair(acfs[k], ab) = CountPair(r.merged[k], ab)

\* two sources with different pairs in the same bin
C4_Witness ==
    /\ JustMerged
    /\ Len(sources) >= 2
    /\ \E k \in 1..NBins :
          /\ Len(sources[1][k].x) >= 1
          /\ Len(sources[2][k].x) >= 1
          /\ sources[1][k] # sources[2][k]

\* C5: the reduction visits the bins in lag-list order, from the smallest lag to
\* the largest for an increasing lag list; in full mode the samples at a bin are
\* those of that bin and of every bin visited before it, so n at a bin is the
\* sum of the merged sizes up to it and never below the n reported before it;
\* in partial mode n is the size of that bin alone.
C5_FullModeCumulative ==
    (pc \in {"reduce", "done"}) =>
        /\ \A i \in 1..Len(visited) : visited[i] = KeyAt(NBins + 1 - i)
        /\ Increasing(lags) =>
              \A i \in 1..Len(visited) - 1 : visited[i][1] < visited[i + 1][1]
        /\ Len(visited) >= 1 =>
              /\ Len(xs) = (IF partial THEN MergedSize(NBins + 1 - Len(visited))
                            ELSE Total([j \in 1..Len(visited) |-> MergedSize(NBins + 1 - j)]))
              /\ Len(ys) = Len(xs)
        /\ (pc = "done" /\ ~simple) =>
              /\ \A i \in 1..Len(result) : \E k \in 1..NBins :
                    /\ result[i][1] = KeyAt(k)
                    /\ result[i][2][2] =
                          (IF partial THEN MergedSize(k)
                           ELSE Total([j \in 1..NBins + 1 - k |-> MergedSize(NBins + 1 - j)]))
              /\ ~partial =>
                    \A i \in 1..Len(result) - 1 : result[i][2][2] <= result[i + 1][2][2]

\* full mode, two bins reported, the larger lag with more samples than its own bin
C5_Witness ==
    /\ pc = "done" /\ ~partial /\ ~simple
    /\ Len(result) >= 2
    /\ result[1][2][2] >= 1
    /\ result[2][2][2] > result[1][2][2]

----------------------------------------------------------------------------
(* Properties of merge_acfs over sources of any lag lists, under SpecMerge *)

\* merge_acfs was called with at least one source
MergeCalled == pc \in {"reduce", "error"} /\ Len(sources) >= 1

Target == sources[Len(sources)]

\* the first position at which source s and t both have a bin and the lags differ, 0 if none
BadPos(s, t) ==
    LET bad == {k \in 1..Min2(Len(sources[s]), Len(sources[t])) :
                   \/ sources[s][k].lag_min # sources[t][k].lag_min
                   \/ sources[s][k].lag_max # sources[t][k].lag_max}
    IN  IF bad = {} THEN 0 ELSE CHOOSE k \in bad : \A j \in bad : k <= j

\* C7 as stated: merge_acfs fails whenever a source disagrees with the one the
\* others are merged into at a bin position both have, whatever the lengths of
\* their lag lists, and when it fails the bins of no source have been extended.
C7_FailsCleanly ==
    MergeCalled =>
        /\ (\E s \in 1..Len(sources) : BadPos(s, Len(sources)) # 0)
              => err = "AssertionError"
        /\ err = "AssertionError" => merged = Target

\* the first source that disagrees with the last one at a common position, 0 if none
FirstBad ==
    LET bad == {s \in 1..Len(sources) - 1 : BadPos(s, Len(sources)) # 0}
    IN  IF bad = {} THEN 0 ELSE CHOOSE s \in bad : \A t \in bad : s <= t

BinOrNone(s, k, field) ==
    IF k <= Len(sources[s]) THEN sources[s][k][field] ELSE <<>>

\* bin k of the last source followed by bin k of the first upto sources and, when
\* a source fails, by its bin k if that is before the failing position
ExtendedBy(k, upto, field) ==
    Target[k][field]
    \o Concat([s \in 1..upto |-> BinOrNone(s, k, field)])
    \o (IF FirstBad # 0 /\ k < BadPos(FirstBad, Len(sources))
        THEN BinOrNone(FirstBad, k, field) ELSE <<>>)

\* C7 amended: merge_acfs fails exactly when some source disagrees with the last
\* source, the one the others are merged into, on (lag_min, lag_max) at a position
\* both have; positions past the shorter list are not compared. On failure no
\* merged list is returned, but the last source's bins have already been extended
\* by every source and position before the mismatch.
C7_FailsOnCommonPositionMismatch ==
    MergeCalled =>
        /\ (err = "AssertionError") <=> (FirstBad # 0)
        /\ (pc = "reduce") <=> (FirstBad = 0)
        /\ FirstBad = 0 =>
              /\ acfs = merged
              /\ \A k \in 1..Len(Target) :
                    /\ merged[k].x = ExtendedBy(k, Len(sources) - 1, "x")
                    /\ merged[k].y = ExtendedBy(k, Len(sources) - 1, "y")
        /\ FirstBad # 0 =>
              /\ acfs = <<>>
              /\ \A k \in 1..Len(Target) :
                    /\ merged[k].x = ExtendedBy(k, FirstBad - 1, "x")
                    /\ merged[k].y = ExtendedBy(k, FirstBad - 1, "y")

\* a failed merge that had already extended a bin of the last source
C7_Witness ==
    /\ MergeCalled
    /\ err = "AssertionError"
    /\ merged # Target

----------------------------------------------------------------------------
(* Properties of local_acf, under SpecLocal *)

\* the neighbor list walk gave for row r
NeighborsOf(r) == walk(chromlist, SeqMax(lags))[r].neighbors

\* the center of row r put among its neighbors
WithCenter(r) ==
    SubSeqOf(chromlist,
             {j \in 1..Len(chromlist) : j = r \/ Near(chromlist, r, j, SeqMax(lags))})

ValuesAt(c, ref, side) == [m \in 1..Len(ref) |-> c[ref[m][side]].p]

\* the column pair for the bin [lo, hi) computed over the intervals c
ColumnOver(c, lo, hi) ==
    LET ref == RefPairs(c, [lag_min |-> lo, lag_max |-> hi], 1, 2)
    IN  [lag_min |-> lo, lag_max |-> hi,
         corr |-> IF Len(ref) > 3
                  THEN corrcoef(NegLog10All(ValuesAt(c, ref, 1)),
                                NegLog10All(ValuesAt(c, ref, 2)))
                  ELSE NA,
         N |-> Len(ref)]

\* C8 as stated: each row lists its columns from the largest lag bin to the
\* smallest, computed over the center together with its neighbor list, in the
\* order of the lag labels of the header.
C8_ColumnsLargestFirst ==
    (pc \in {"local", "done"}) =>
        \A r \in 1..Len(out) :
            LET cols == out[r].cols
            IN  /\ Len(cols) = Len(header)
                /\ \A k \in 1..Len(cols) :
                      /\ <<cols[k].lag_min, cols[k].lag_max>> = header[k]
                      /\ cols[k] = ColumnOver(WithCenter(r), cols[k].lag_min, cols[k].lag_max)
                /\ \A k \in 1..Len(cols) - 1 : cols[k].lag_min > cols[k + 1].lag_min

\* C8 amended: each row lists its columns in the order of the lag labels of the
\* header, which is the order of the lag list: from the smallest lag bin to the
\* largest for an increasing lag list. The binning for the row is run over the
\* neighbor list walk yields for the center, and a column is the correlation of
\* the -log10 values when more than 3 pairs fell into its bin, else NA, and N.
C8_ColumnsInHeaderOrder ==
    (pc \in {"local", "done"}) =>
        \A r \in 1..Len(out) :
            LET cols == out[r].cols
            IN  /\ out[r].start = chromlist[r].start
                /\ Len(cols) = Len(header)
                /\ \A k \in 1..Len(cols) :
                      /\ <<cols[k].lag_min, cols[k].lag_max>> = header[k]
                      /\ header[k] = <<lags[k], lags[k + 1]>>
                      /\ cols[k] = ColumnOver(NeighborsOf(r), cols[k].lag_min, cols[k].lag_max)
                /\ Increasing(lags) =>
                      \A k \in 1..Len(cols) - 1 : cols[k].lag_min < cols[k + 1].lag_min

\* a finished run with a row of several columns, one of them a number
C8_Witness ==
    /\ pc = "done"
    /\ Increasing(lags)
    /\ \E r \in 1..Len(out) :
          /\ Len(out[r].cols) >= 2
          /\ \E k \in 1..Len(out[r].cols) :
                out[r].cols[k].N > 3 /\ out[r].cols[k].corr.kind = "num"
          /\ \E k \in 1..Len(out[r].cols) : out[r].cols[k].N \in 1..3

=============================================================================
